---- MODULE Spec2Model ----
(***************************************************************************)
(* The coin balance puzzle solver of the "Coin balance" notebook           *)
(* (src/unnamed/part_001): class Balance with weigh, find and the two      *)
(* revisions of solve (explicit count, and closed form).                   *)
(*                                                                         *)
(* One behaviour is one call made on one Balance object: the generator     *)
(* returned by solve(count, coins), solve(coins) or find(light, heavy) is  *)
(* drained as list(...) does.  One step is one activation of solve or of   *)
(* find, from its entry to its recursive call or its return.               *)
(*                                                                         *)
(* Coins are the integers 1..n in the order of the string the notebook     *)
(* passes ('abcdefghijkl').  The iteration order of a Python set is not    *)
(* specified: every itertools.islice taken over a set is modelled as the   *)
(* choice of any result that some iteration order of that set produces.    *)
(***************************************************************************)
EXTENDS Integers, FiniteSets, Sequences

\* ----------------------------------------------------------------- bounds
\* Largest pool handed to solve.
MaxCoins == 12
\* Largest light | heavy handed directly to find.
MaxFind == 7
\* Known-normal coins a Balance may hold before a direct call of find.
MaxFiller == 2
\* Stand-in for sys.getrecursionlimit(): nested generator activations.
RecursionLimit == 12
\* Largest coin of the sets handed directly to weigh.
MaxWeigh == 4
\* Largest pool on which solve is called a second time on the same Balance.
MaxRerun == 4
\* Largest pool for which the whole sequence of weighings is kept in trace.
MaxTrace == 7
\* Largest count with which solve(count, coins) is called on an empty pool.
MaxEmptyCount == 2

\* ------------------------------------------------------- class Weight
LIGHT == -1
EVEN == 0
HEAVY == 1

\* A coin that is in no pool: Balance(NoCoin, w) weighs EVEN every time.
NoCoin == 0
\* The coins filler may hold before a direct call of find: not in any pool.
FillerCoins == {-i : i \in 1..MaxFiller}

\* "13 coins in 3 weighings ... with a filler coin": the pool, and the one
\* known-normal coin the Balance holds beforehand.
ThirteenCoins == 13
OneFiller == {-1}

VARIABLES
    method,     \* the entry point called: "solve_count", "solve" or "find"
    coin,       \* Balance.coin: the target coin
    weight,     \* Balance.weight: LIGHT or HEAVY
    filler,     \* Balance.filler
    pc,         \* "solve", "find": the activation about to run; "done";
                \* "AssertionError"; "RecursionError"
    count,      \* solve's argument count (explicit-count revision)
    coins,      \* solve's argument coins, as a set
    ordered,    \* TRUE when coins is the caller's string (enumerated 1, 2, ...),
                \* FALSE when it is a set (solve's own exclude)
    light,      \* find's argument light
    heavy,      \* find's argument heavy
    yields,     \* the pairs (light, heavy) yielded so far
    weighings,  \* calls of weigh so far
    depth,      \* recursive calls made so far (nested activations)
    pool,       \* the pool of the outermost call (light | heavy for find)
    count0,     \* the count of the outermost call
    trace,      \* the calls of weigh of this invocation, in order (kept for
                \* pools of at most MaxTrace coins): who called, left, right,
                \* the candidates kept off the scale, whether the assert held,
                \* and the weight returned
    run,        \* 1 in the first invocation on this Balance, 2 in the second
    trace1      \* the trace of the first invocation, once a second has begun

vars == <<method, coin, weight, filler, pc, count, coins, ordered, light, heavy,
          yields, weighings, depth, pool, count0, trace, run, trace1>>

\* ---------------------------------------------------------------- helpers
Abs(x) == IF x < 0 THEN -x ELSE x

Min(a, b) == IF a < b THEN a ELSE b

Pow3(n) == 3 ^ n

\* math.ceil(math.log(x, 3)) for x >= 1.  The floating point quotient
\* log(x)/log(3) rounds to the exact integer at every power of 3 below 2000,
\* so the ceiling is the least c with 3^c >= x.
CeilLog3(x) == CHOOSE c \in 0..x : Pow3(c) >= x /\ \A d \in 0..(c - 1) : Pow3(d) < x

KSubsets(S, k) == {T \in SUBSET S : Cardinality(T) = k}

\* The length of a slice rounded down instead of up.
SliceLenFloor(n, start, step) == IF n <= start THEN 0 ELSE (n - start) \div step

\* len(list(itertools.islice(range(n), start, None, step)))
SliceLen(n, start, step) == IF n <= start THEN 0 ELSE (n - start + step - 1) \div step

\* set(itertools.islice(coins, stop)): the first stop coins of the caller's
\* string, or any stop coins of a set.
Islice(S, isOrdered, stop) ==
    IF isOrdered
    THEN {{c \in S : Cardinality({d \in S : d < c}) < stop}}
    ELSE KSubsets(S, Min(stop, Cardinality(S)))

\* The pairs <<islice(S, 0, None, step), islice(S, 1, None, step)>> that the
\* iteration orders of the set S produce (S is not modified in between, so
\* both slices see the same order).
Strided(S, step) ==
    UNION {{<<a, b>> : b \in KSubsets(S \ a, SliceLen(Cardinality(S), 1, step))} :
           a \in KSubsets(S, SliceLen(Cardinality(S), 0, step))}

\* ------------------------------------------------------------ Balance.weigh
\* The assert of the first revision of weigh: len(left) == len(right)
WeighAssertEqual(left, right, fill) == Cardinality(left) = Cardinality(right)

\* The assert of weigh.
WeighAssert(left, right, fill) ==
    Abs(Cardinality(left) - Cardinality(right)) <= Cardinality(fill)

\* weigh with the negation for the right pan left out.
WeighNoNegation(left, right) ==
    IF coin \in left \/ coin \in right THEN weight ELSE EVEN

\* The value weigh returns when its assert holds.
Weigh(left, right) ==
    IF coin \in left THEN weight
    ELSE IF coin \in right THEN -weight
    ELSE EVEN

\* The sizing with the exponent off by one: 3 ** count - (not self.filler)
WeighSizeWholeBudget(cnt, fill) == Pow3(cnt) - (IF fill = {} THEN 1 ELSE 0)

\* The number of coins solve puts on the scale: 3 ** (count - 1) - (not self.filler)
WeighSize(cnt, fill) == Pow3(cnt - 1) - (IF fill = {} THEN 1 ELSE 0)

\* The filler update of solve with its two cases exchanged.
KnownSwapped(w, exclude, weigh) == IF w # EVEN THEN weigh ELSE exclude

\* The filler update of solve taking exclude whatever the weight.
KnownAlwaysExclude(w, exclude, weigh) == exclude

\* What solve adds to filler: exclude if weight else weigh
Known(w, exclude, weigh) == IF w # EVEN THEN exclude ELSE weigh

\* self.filler = ... in place of self.filler.update(...)
UpdateAssign(fill, more) == more

\* self.filler.update(more)
Update(fill, more) == fill \cup more

\* solve passing count on unchanged
RemainingSame(cnt) == cnt

\* The count solve passes on after an EVEN weighing: count - 1
Remaining(cnt) == cnt - 1

\* One call of weigh as recorded in trace: the caller, its count (0 where
\* there is none) and its candidates, the two pans, the candidates kept off
\* the scale, filler at the call, whether the assert held, the weight returned.
Weighing(by, cnt, from, left, right, rest, fill) ==
    [by |-> by, count |-> cnt, from |-> from, left |-> left, right |-> right,
     rest |-> rest, filler |-> fill,
     ok |-> WeighAssert(left, right, fill),
     weight |-> IF WeighAssert(left, right, fill) THEN Weigh(left, right) ELSE EVEN]

\* trace with one more call of weigh.
Recorded(tr, rec) == IF Cardinality(pool) <= MaxTrace THEN Append(tr, rec) ELSE tr

\* The narrowing of find keeping every light candidate.
NewLightAll(w, lt, left, right) == lt

\* The narrowing of find: the next light and the next heavy.
NewLight(w, lt, left, right) ==
    IF w < 0 THEN lt \cap left
    ELSE IF w > 0 THEN lt \cap right
    ELSE (lt \ left) \ right

\* The narrowing of find taking heavy from the same pan as light.
NewHeavySamePan(w, hv, left, right) ==
    IF w < 0 THEN hv \cap left
    ELSE IF w > 0 THEN hv \cap right
    ELSE (hv \ left) \ right

NewHeavy(w, hv, left, right) ==
    IF w < 0 THEN hv \cap right
    ELSE IF w > 0 THEN hv \cap left
    ELSE (hv \ left) \ right

\* The base case of find taken for no candidate only: if not union: return
FoundNone(union) == union = {}

\* The base case of find: if len(union) <= 1: return
Found(union) == Cardinality(union) <= 1

\* The filler update of find with heavy left out: union - light
EliminatedButHeavy(union, newLight, newHeavy) == union \ newLight

\* What find adds to filler: union - light - heavy
Eliminated(union, newLight, newHeavy) == (union \ newLight) \ newHeavy

\* A recursive call: the activation it starts, unless the interpreter's
\* recursion limit is hit.
Call(next) == IF depth + 1 >= RecursionLimit THEN "RecursionError" ELSE next

\* ------------------------------------------------------------------- Init
SolveCounts(n) == 0..(IF n = 0 THEN MaxEmptyCount ELSE CeilLog3(2 * n + 1))

InitSolve ==
    /\ method \in {"solve_count", "solve"}
    /\ \E n \in 0..MaxCoins :
        /\ coins = 1..n
        /\ coin \in {NoCoin} \cup 1..n
        /\ count \in IF method = "solve_count" THEN SolveCounts(n) ELSE {0}
    /\ ordered = TRUE
    /\ filler = {}
    /\ pc = "solve"
    /\ light = {} /\ heavy = {}

\* solve of 13 coins on a Balance that already holds one filler coin.
InitThirteen ==
    /\ method \in {"solve_count", "solve"}
    /\ coins = 1..ThirteenCoins
    /\ coin \in {NoCoin} \cup 1..ThirteenCoins
    /\ count = (IF method = "solve_count" THEN CeilLog3(2 * ThirteenCoins + 1) ELSE 0)
    /\ ordered = TRUE
    /\ filler = OneFiller
    /\ pc = "solve"
    /\ light = {} /\ heavy = {}

\* balance.weigh(left, right) called directly
InitWeigh ==
    /\ method = "weigh"
    /\ coin \in {NoCoin} \cup 1..MaxWeigh
    /\ filler \in {{}, FillerCoins}
    /\ pc = "weigh"
    /\ coins = {} /\ count = 0 /\ ordered = FALSE
    /\ light = {} /\ heavy = {}

InitFind ==
    /\ method = "find"
    /\ \E a \in 0..MaxFind : \E b \in 0..(MaxFind - a) :
        /\ light = 1..a
        /\ heavy = (a + 1)..(a + b)
        /\ coin \in {NoCoin} \cup 1..(a + b)
    /\ filler \in {{}, FillerCoins}
    /\ pc = "find"
    /\ coins = {} /\ count = 0 /\ ordered = FALSE

Init ==
    /\ weight \in {LIGHT, HEAVY}
    /\ (InitSolve \/ InitThirteen \/ InitFind \/ InitWeigh)
    /\ yields = <<>>
    /\ weighings = 0
    /\ depth = 0
    /\ pool = (coins \cup light \cup heavy)
    /\ count0 = count
    /\ trace = <<>>
    /\ run = 1
    /\ trace1 = <<>>

\* ----------------------------------------------------------- the top round
\* The body shared by both revisions of solve once count is known: lines
\* 177-187 and 235-245.
Round(cnt) ==
    \E weigh \in Islice(coins, ordered, WeighSize(cnt, filler)) :
    \E halves \in Strided(weigh, 2) :
        LET exclude == coins \ weigh
            left == halves[1]
            right == halves[2]
            w == Weigh(left, right)
        IN  /\ weighings' = weighings + 1
            /\ trace' = Recorded(trace, Weighing("solve", cnt, coins, left, right, exclude,
                                                 filler))
            /\ IF ~WeighAssert(left, right, filler)
               THEN /\ pc' = "AssertionError"
                    /\ UNCHANGED <<filler, count, coins, ordered, light, heavy, depth>>
               ELSE /\ filler' = Update(filler, Known(w, exclude, weigh))
                    /\ depth' = depth + 1
                    /\ IF w < 0
                       THEN /\ pc' = Call("find")
                            /\ light' = left /\ heavy' = right
                            /\ UNCHANGED <<count, coins, ordered>>
                       ELSE IF w > 0
                       THEN /\ pc' = Call("find")
                            /\ light' = right /\ heavy' = left
                            /\ UNCHANGED <<count, coins, ordered>>
                       ELSE /\ pc' = Call("solve")
                            /\ count' = (IF method = "solve_count" THEN Remaining(cnt) ELSE count)
                            /\ coins' = exclude
                            /\ ordered' = FALSE
                            /\ UNCHANGED <<light, heavy>>
            /\ UNCHANGED <<method, coin, weight, yields, pool, count0, run, trace1>>

\* Balance.solve(count, coins)
SolveCount ==
    /\ pc = "solve"
    /\ method = "solve_count"
    /\ IF count <= 0
       THEN /\ pc' = "done"
            /\ UNCHANGED <<method, coin, weight, filler, count, coins, ordered, light,
                           heavy, yields, weighings, depth, pool, count0, trace, run,
                           trace1>>
       ELSE Round(count)

\* Balance.solve(coins), the closed form
Solve ==
    /\ pc = "solve"
    /\ method = "solve"
    /\ IF coins = {}
       THEN /\ pc' = "done"
            /\ UNCHANGED <<method, coin, weight, filler, count, coins, ordered, light,
                           heavy, yields, weighings, depth, pool, count0, trace, run,
                           trace1>>
       ELSE Round(CeilLog3(Cardinality(coins) * 2 + 1))

\* ------------------------------------------------------------ Balance.find
Find ==
    /\ pc = "find"
    /\ yields' = Append(yields, <<light, heavy>>)
    /\ LET union == light \cup heavy
       IN  IF Found(union)
           THEN /\ pc' = "done"
                /\ UNCHANGED <<filler, light, heavy, weighings, depth, trace>>
           ELSE \E ls \in Strided(light, 3) : \E hs \in Strided(heavy, 3) :
                LET left == ls[1] \cup hs[1]
                    right == ls[2] \cup hs[2]
                    w == Weigh(left, right)
                    newLight == NewLight(w, light, left, right)
                    newHeavy == NewHeavy(w, heavy, left, right)
                IN  /\ weighings' = weighings + 1
                    /\ trace' = Recorded(trace, Weighing("find", 0, union, left, right,
                                                         (union \ left) \ right, filler))
                    /\ IF ~WeighAssert(left, right, filler)
                       THEN /\ pc' = "AssertionError"
                            /\ UNCHANGED <<filler, light, heavy, depth>>
                       ELSE /\ light' = newLight
                            /\ heavy' = newHeavy
                            /\ filler' = Update(filler, Eliminated(union, newLight, newHeavy))
                            /\ depth' = depth + 1
                            /\ pc' = Call("find")
    /\ UNCHANGED <<method, coin, weight, count, coins, ordered, pool, count0, run, trace1>>

\* ----------------------------------------------------------- weigh, directly
\* balance.weigh(left, right) with disjoint sets of coins
WeighCall ==
    /\ pc = "weigh"
    /\ \E left \in SUBSET (1..MaxWeigh) : \E right \in SUBSET ((1..MaxWeigh) \ left) :
        /\ trace' = Recorded(trace, Weighing("weigh", 0, left \cup right, left, right, {},
                                                 filler))
        /\ pc' = (IF WeighAssert(left, right, filler) THEN "done" ELSE "AssertionError")
    /\ weighings' = weighings + 1
    /\ UNCHANGED <<method, coin, weight, filler, count, coins, ordered, light, heavy,
                   yields, depth, pool, count0, run, trace1>>

\* ------------------------------------------- a second call on the same Balance
\* The caller drains solve and calls it again with the same arguments on the
\* same Balance object: self.filler is what the first call left.
SolveAgain ==
    /\ pc = "done"
    /\ method \in {"solve_count", "solve"}
    /\ run = 1
    /\ Cardinality(pool) <= MaxRerun
    /\ run' = 2
    /\ trace1' = trace
    /\ trace' = <<>>
    /\ yields' = <<>>
    /\ weighings' = 0
    /\ depth' = 0
    /\ pc' = "solve"
    /\ coins' = pool
    /\ ordered' = TRUE
    /\ count' = count0
    /\ light' = {}
    /\ heavy' = {}
    /\ UNCHANGED <<method, coin, weight, filler, pool, count0>>

Next == SolveCount \/ Solve \/ Find \/ WeighCall \/ SolveAgain

Spec == Init /\ [][Next]_vars

\* ------------------------------------------------------- notebook constants
\* coins = 'abcdefghijkl'; assert len(coins) == 12
TwelveCoins == 12
\* balance.solve(3, coins)
ThreeWeighings == 3

\* ------------------------------------------------------------ observations
SolveMethods == {"solve_count", "solve"}

\* The first call on a Balance just constructed: self.filler == set().
Fresh == run = 1 /\ filler \cap FillerCoins = {}

\* A run of solve, either revision, on a fresh Balance.
FreshSolve == method \in SolveMethods /\ Fresh

Crashed == pc \in {"AssertionError", "RecursionError"}

Ended == pc = "done" \/ Crashed

\* The last pair yielded isolates the target on the side of its weight.
Isolated ==
    /\ yields # <<>>
    /\ yields[Len(yields)] = (IF weight = LIGHT THEN <<{coin}, {}>> ELSE <<{}, {coin}>>)

\* ceil(log_3(2N+1)) for the pool of the outermost call.
DerivedCount == CeilLog3(2 * Cardinality(pool) + 1)

\* The count a run of solve is held to: supplied, or derived.
Budget == IF method = "solve_count" THEN count0 ELSE DerivedCount

\* g(n) = (3^n - 1) / 2
Capacity(n) == (Pow3(n) - 1) \div 2

\* solve(3, coins) of the notebook, with the target among the 12 coins.
TwelveCoinRun ==
    /\ method = "solve_count"
    /\ Fresh
    /\ Cardinality(pool) = TwelveCoins
    /\ count0 = ThreeWeighings
    /\ coin \in pool

\* ------------------------------------------------------------------ claims
\* C1: in the 12-coin puzzle, for every target coin and either weight,
\* solve(3, coins) on a fresh Balance raises nothing, and once it has
\* completed the last pair it yielded is ({coin}, {}) for LIGHT and
\* ({}, {coin}) for HEAVY, whatever the iteration order of the sets.
C1_TwelveCoinsIdentified ==
    TwelveCoinRun => /\ ~Crashed
                     /\ (pc = "done" => Isolated)

C1_Witness ==
    /\ TwelveCoinRun
    /\ pc = "done"
    /\ weight = HEAVY
    /\ coin = TwelveCoins
    /\ Isolated

\* C2: the calls of weigh made in one run of solve, those of find included,
\* never exceed the count supplied, or derived as ceil(log_3(2N+1)).
C2_WeighingCountBound ==
    (FreshSolve /\ pool # {}) => weighings <= Budget

\* C3: for every pool of N >= 1 coins, every target of the pool and either
\* weight, solve with count = ceil(log_3(2N+1)) ends normally with the last
\* yielded pair isolating the target on the side of its weight.
C3_RoundTrip ==
    (/\ FreshSolve
     /\ pool # {}
     /\ coin \in pool
     /\ Budget = DerivedCount
     /\ Ended) => (pc = "done" /\ Isolated)

\* C4: with 3 coins, count = 2, the 2nd coin as target and HEAVY, solve
\* raises nothing, ends with ({}, {target}) and weighs at most twice.
C4_ThreeCoinEdgeCase ==
    (/\ method = "solve_count"
     /\ Fresh
     /\ Cardinality(pool) = 3
     /\ count0 = 2
     /\ coin = 2
     /\ weight = HEAVY) => /\ ~Crashed
                           /\ weighings <= 2
                           /\ (pc = "done" => Isolated)

\* C5: with the 12 coins, target the first coin ('a') and LIGHT,
\* solve(3, coins) ends with ({a}, {}) after exactly 3 weighings, whatever
\* the iteration order of the sets.
C5_TwelveCoinExample ==
    (TwelveCoinRun /\ coin = 1 /\ weight = LIGHT /\ Ended) =>
        (pc = "done" /\ Isolated /\ weighings = ThreeWeighings)

\* C6: at every step of a run on a fresh Balance, light and heavy are
\* disjoint in every pair yielded and in every call of find, filler is
\* disjoint from light | heavy, and inside solve filler is disjoint from the
\* pool still under consideration.
C6_Disjointness ==
    run = 1 =>
        /\ light \cap heavy = {}
        /\ filler \cap (light \cup heavy) = {}
        /\ \A i \in 1..Len(yields) : yields[i][1] \cap yields[i][2] = {}
        /\ (pc = "solve" => filler \cap coins = {})

C6_Witness ==
    /\ method = "solve_count"
    /\ Fresh
    /\ pc = "find"
    /\ Len(yields) >= 2
    /\ Cardinality(light \cup heavy) >= 2
    /\ Cardinality(filler) >= 2

\* C7: a run of solve never recurses without end: neither solve(coins) on a
\* non-empty pool, with or without a deviant coin, nor solve(count, coins).
C7_SolveTerminates ==
    FreshSolve => pc # "RecursionError"

\* C8: when the target coin is not in the pool (every weighing is EVEN),
\* solve ends normally and yields no pair, for every pool size.
C8_NoDeviant ==
    (FreshSolve /\ coin = NoCoin) => (~Crashed /\ yields = <<>>)

\* C9 as claimed: a pool of g(n) = (3^n - 1)/2 coins is within what solve
\* resolves with n weighings: every target and weight is isolated, using
\* at most n weighings.
C9_CapacityAttained ==
    (/\ method = "solve_count"
     /\ Fresh
     /\ count0 >= 1
     /\ Cardinality(pool) = Capacity(count0)
     /\ coin \in pool
     /\ Ended) => (pc = "done" /\ Isolated /\ weighings <= count0)

\* C9 amended: on a fresh Balance g(n) is out of reach as well as g(n) + 1.
\* For a pool of N >= g(n) coins, a run of solve(n, coins) whose n weighings
\* are all EVEN ends after exactly n weighings having yielded nothing, with
\* N - g(n) + 1 >= 1 coins never put on the scale; a target among them is
\* not resolved.
C9_CapacityNotAttained ==
    (/\ method = "solve_count"
     /\ Fresh
     /\ count0 >= 1
     /\ Cardinality(pool) >= Capacity(count0)
     /\ pc = "done"
     /\ yields = <<>>) =>
        /\ weighings = count0
        /\ Cardinality(coins) = Cardinality(pool) - Capacity(count0) + 1
        /\ filler = pool \ coins
        /\ (coin \in pool => coin \in coins)

C9_Witness ==
    /\ method = "solve_count"
    /\ Fresh
    /\ count0 = 2
    /\ Cardinality(pool) = Capacity(count0) + 1
    /\ pc = "done"
    /\ yields = <<>>
    /\ coin \in coins

\* C10: called with disjoint light, heavy of at most 3^n coins together, the
\* target on the side of its weight and filler enough to balance the pans,
\* find isolates the target after at most n weighings.
C10_FindCapacity ==
    (/\ method = "find"
     /\ FillerCoins \subseteq filler
     /\ Ended
     /\ coin \in (IF weight = LIGHT THEN yields[1][1] ELSE yields[1][2])) => (pc = "done" /\ Isolated /\ weighings <= CeilLog3(Cardinality(pool)))

\* ------------------------------------------------- observations on weighings
\* The Balance held exactly the one filler coin when solve was first called.
OneFillerSolve ==
    /\ method \in SolveMethods
    /\ run = 1
    /\ filler \cap FillerCoins = OneFiller

\* The budget is insufficient in principle: 2 * |coins| + 1 > 3^count.
Insufficient == 2 * Cardinality(pool) + 1 > Pow3(count0)

\* The coins on the scale in a recorded call of weigh.
OnScale(t) == t.left \cup t.right

\* The calls of weigh recorded in trace that find made.
FindWeighings == {i \in 1..Len(trace) : trace[i].by = "find"}

\* C11: with one known-normal coin in filler beforehand, solve on 13 coins
\* (3 weighings) isolates every target on the side of its weight using at
\* most 3 weighings.
C11_ThirteenWithFiller ==
    (/\ OneFillerSolve
     /\ Cardinality(pool) = ThirteenCoins
     /\ coin \in pool
     /\ Ended) => (pc = "done" /\ Isolated /\ weighings <= ThreeWeighings)

\* C12 as claimed: solve(count, coins) with an insufficient budget reports
\* the error before weigh is called even once.
C12_RejectedUpFront ==
    (method = "solve_count" /\ Fresh /\ Insufficient) => weighings = 0

\* C12 amended: solve(count, coins) validates nothing.  With an insufficient
\* budget it raises no error at any point, and unless count is 0 it has
\* called weigh at least once by the time it ends.
C12_NeverRejected ==
    (method = "solve_count" /\ Fresh /\ Insufficient) =>
        /\ ~Crashed
        /\ (Ended => (weighings >= 1 <=> count0 >= 1))

C12_Witness ==
    /\ method = "solve_count"
    /\ Fresh
    /\ Insufficient
    /\ coin \in pool
    /\ pc = "done"
    /\ weighings = count0
    /\ count0 >= 2
    /\ yields = <<>>

\* C13: once solve(count, coins) has used up its budget (count has reached
\* 0, all count weighings EVEN) it ends normally having yielded no pair,
\* which no successful run does; it raises nothing and weighs no further.
C13_Unresolvable ==
    method = "solve_count" =>
        /\ (yields = <<>> => weighings <= count0)
        /\ (count <= 0 => /\ pc \in {"solve", "done"}
                          /\ yields = <<>>
                          /\ ~Isolated
                          /\ weighings = count0)

C13_Witness ==
    /\ method = "solve_count"
    /\ Fresh
    /\ count0 >= 2
    /\ count = 0
    /\ pc = "done"
    /\ coin \in coins

\* C14: weigh(A, B) == -weigh(B, A) for disjoint A and B: weigh returns the
\* Balance's weight when the target is in the left set, its negation when
\* in the right set, EVEN when in neither; and the assert holds for (A, B)
\* exactly when it holds for (B, A).
C14_Antisymmetry ==
    \A i \in 1..Len(trace) :
        LET t == trace[i]
        IN  /\ (method = "weigh" => t.ok = WeighAssert(t.right, t.left, filler))
            /\ (t.ok => /\ t.weight = -Weigh(t.right, t.left)
                        /\ (coin \in t.left => t.weight = weight)
                        /\ (coin \in t.right => t.weight = -weight)
                        /\ (coin \notin OnScale(t) => t.weight = EVEN))

C14_Witness ==
    /\ method = "weigh"
    /\ pc = "done"
    /\ weight = LIGHT
    /\ coin \in trace[1].right
    /\ trace[1].weight = HEAVY
    /\ Cardinality(trace[1].left) = 2

C16_NoCarryOver ==
    (run = 2 /\ trace # <<>> /\ trace1 # <<>>) => OnScale(trace[1]) = OnScale(trace1[1])

\* C17: solve(coins) makes the weighings of solve(ceil(log_3(2N+1)), coins):
\* at every round the closed form is in the position the explicit form
\* would be in, the count it derives from the coins left being the first
\* count less the EVEN rounds so far, and it returns (pool empty) only when
\* that count is used up.
C17_SameRounds ==
    (method = "solve" /\ Fresh /\ pool # {} /\ pc = "solve") =>
        IF coins = {}
        THEN DerivedCount - depth <= 0
        ELSE CeilLog3(2 * Cardinality(coins) + 1) = DerivedCount - depth

\* C18: in every run of solve on a fresh Balance, for every pool of N >= 1
\* coins, every call of weigh satisfies abs(|left| - |right|) <= |filler|:
\* the assert of weigh never fails.
C18_WeighPrecondition ==
    (FreshSolve /\ pool # {}) => pc # "AssertionError"

\* C19: in every step of find that weighs, the left pan, the right pan and
\* the candidates held out differ in size by at most one.
C19_BalancedSplit ==
    \A i \in FindWeighings :
        LET l == Cardinality(trace[i].left)
            r == Cardinality(trace[i].right)
            h == Cardinality(trace[i].rest)
        IN  Abs(l - r) <= 1 /\ Abs(l - h) <= 1 /\ Abs(r - h) <= 1

SolveWeighings == {i \in 1..Len(trace) : trace[i].by = "solve"}

\* The coins a round of solve took from its pool to weigh.
Weighed(t) == t.from \ t.rest

\* 3^(c-1), less one when filler is empty, for a recorded round of solve.
SizingRule(t) == Pow3(t.count - 1) - (IF t.filler = {} THEN 1 ELSE 0)

\* light | heavy of a yielded pair.
Union(pair) == pair[1] \cup pair[2]

\* The pair find goes on with after yielding its j-th pair: the next pair
\* yielded, or the arguments of the activation about to run.
NextPair(j) == IF j < Len(yields) THEN yields[j + 1] ELSE <<light, heavy>>

\* The call of weigh made by the activation of find that yielded the j-th
\* pair: the calls made by solve come first.
FindWeighing(j) == Cardinality(SolveWeighings) + j

\* C21 as claimed: in every round of solve the weighed set is split into
\* left and right of equal size, disjoint, with union the weighed set.
C21_EqualHalves ==
    \A i \in SolveWeighings :
        /\ Cardinality(trace[i].left) = Cardinality(trace[i].right)
        /\ trace[i].left \cap trace[i].right = {}
        /\ OnScale(trace[i]) = Weighed(trace[i])

\* C21 amended: in every round of solve left and right are disjoint with
\* union the weighed set; they are of equal size when the weighed set is
\* even, and left has one coin more when it is odd.
C21_InterleavedHalves ==
    \A i \in SolveWeighings :
        LET k == Cardinality(Weighed(trace[i]))
        IN  /\ Cardinality(trace[i].left) = (k + 1) \div 2
            /\ Cardinality(trace[i].right) = k \div 2
            /\ trace[i].left \cap trace[i].right = {}
            /\ OnScale(trace[i]) = Weighed(trace[i])

C21_Witness ==
    /\ method \in SolveMethods
    /\ pc = "done"
    /\ Isolated
    /\ \E i \in SolveWeighings :
           /\ trace[i].ok
           /\ trace[i].right # {}
           /\ Cardinality(trace[i].left) = Cardinality(trace[i].right) + 1

\* C22 as claimed: in every round of solve with count c exactly 3^(c-1)
\* coins are put on the scale when filler is not empty and 3^(c-1) - 1 when
\* it is empty, the rest of the pool being excluded.
C22_SizingRule ==
    \A i \in SolveWeighings :
        /\ Cardinality(OnScale(trace[i])) = SizingRule(trace[i])
        /\ trace[i].rest = trace[i].from \ OnScale(trace[i])

\* C22 amended: in every round of solve with count c the coins put on the
\* scale are 3^(c-1) in number when filler is not empty and 3^(c-1) - 1
\* when it is empty, or the whole pool of the round when it has fewer coins
\* than that; the rest of the pool is excluded; whether filler is empty is
\* looked at anew in every round.
C22_SizingRuleUpToPool ==
    \A i \in SolveWeighings :
        /\ Cardinality(OnScale(trace[i])) =
               Min(Cardinality(trace[i].from), SizingRule(trace[i]))
        /\ OnScale(trace[i]) \subseteq trace[i].from
        /\ trace[i].rest = trace[i].from \ OnScale(trace[i])

C22_Witness ==
    /\ FreshSolve
    /\ Len(trace) >= 2
    /\ trace[1].by = "solve"
    /\ trace[1].filler = {}
    /\ trace[1].rest # {}
    /\ \E i \in SolveWeighings :
           /\ trace[i].filler # {}
           /\ trace[i].ok
           /\ Cardinality(trace[i].from) < SizingRule(trace[i])
           /\ OnScale(trace[i]) = trace[i].from
           /\ trace[i].from # {}

\* C23: after weigh(left, right) find goes on with (light & left,
\* heavy & right) when the result is LIGHT, (light & right, heavy & left)
\* when it is HEAVY, and (light - left - right, heavy - left - right) when
\* it is EVEN.
C23_Narrowing ==
    \A j \in 1..Len(yields) :
        (/\ FindWeighing(j) <= Len(trace)
         /\ trace[FindWeighing(j)].ok) =>
            LET t == trace[FindWeighing(j)]
                lt == yields[j][1]
                hv == yields[j][2]
            IN  /\ t.by = "find"
                /\ t.from = lt \cup hv
                /\ NextPair(j) =
                       (CASE t.weight = LIGHT -> <<lt \cap t.left, hv \cap t.right>>
                          [] t.weight = HEAVY -> <<lt \cap t.right, hv \cap t.left>>
                          [] t.weight = EVEN -> <<(lt \ t.left) \ t.right,
                                                  (hv \ t.left) \ t.right>>)

C23_Witness ==
    /\ method = "find"
    /\ pc = "done"
    /\ \E i \in FindWeighings : trace[i].ok /\ trace[i].weight = EVEN
    /\ \E i \in FindWeighings :
           /\ trace[i].ok
           /\ trace[i].weight = HEAVY
           /\ trace[i].right # {}
           /\ NextPair(i) # <<{}, {}>>

\* C24: a round of solve whose weighing is EVEN adds exactly the weighed
\* set to filler and calls solve on the excluded set (with count - 1 where
\* there is a count); a LIGHT weighing adds exactly the excluded set to
\* filler and calls find(left, right); a HEAVY weighing adds exactly the
\* excluded set and calls find(right, left); the target, its weight and the
\* pairs yielded are left as they were.
C24_Branching ==
    [][(/\ pc = "solve"
        /\ Len(trace') = Len(trace) + 1
        /\ trace'[Len(trace')].ok) =>
           LET t == trace'[Len(trace')]
           IN  /\ t.by = "solve"
               /\ UNCHANGED <<coin, weight, yields, pool>>
               /\ CASE t.weight = EVEN ->
                           /\ filler' = filler \cup OnScale(t)
                           /\ coins' = t.rest
                           /\ (method = "solve_count" => count' = count - 1)
                           /\ pc' \in {"solve", "RecursionError"}
                           /\ UNCHANGED <<light, heavy>>
                    [] t.weight = LIGHT ->
                           /\ filler' = filler \cup t.rest
                           /\ light' = t.left
                           /\ heavy' = t.right
                           /\ pc' \in {"find", "RecursionError"}
                           /\ UNCHANGED <<count, coins>>
                    [] t.weight = HEAVY ->
                           /\ filler' = filler \cup t.rest
                           /\ light' = t.right
                           /\ heavy' = t.left
                           /\ pc' \in {"find", "RecursionError"}
                           /\ UNCHANGED <<count, coins>>]_vars

C24_Witness ==
    /\ method = "solve_count"
    /\ Fresh
    /\ pc = "find"
    /\ yields = <<>>
    /\ Len(trace) = 2
    /\ trace[1].weight = EVEN
    /\ trace[1].rest # {}
    /\ trace[2].ok
    /\ trace[2].weight = HEAVY
    /\ trace[2].rest # {}

\* C25: in every step filler keeps every coin it had, and after a step of
\* find filler holds every coin the step took out of light | heavy.
C25_FillerGrows ==
    [][/\ filler \subseteq filler'
       /\ (pc = "find" =>
               ((light \cup heavy) \ (light' \cup heavy')) \subseteq filler')]_vars

C25_Witness ==
    /\ pc = "done"
    /\ Len(yields) >= 3
    /\ FillerCoins \subseteq filler
    /\ filler \cap pool # {}
    /\ (light \cup heavy) \cap filler = {}

\* C26: solve called on an empty pool ends at once, having called weigh no
\* times and yielded nothing, in the closed form and with any count.
C26_EmptyPool ==
    (method \in SolveMethods /\ run = 1 /\ pool = {}) =>
        (weighings = 0 /\ yields = <<>> /\ ~Crashed)

\* C27: every activation of find first yields the pair it was given; when
\* light | heavy has at most one coin it returns there, without calling
\* weigh and without changing filler; and find returns in no other case, so
\* the last pair of a run of find that completes has at most one coin.
C27_FindBaseCase ==
    [][pc = "find" =>
           /\ yields' = Append(yields, <<light, heavy>>)
           /\ (Cardinality(light \cup heavy) <= 1 =>
                   /\ pc' = "done"
                   /\ weighings' = weighings
                   /\ UNCHANGED <<filler, light, heavy, trace>>)
           /\ (pc' = "done" =>
                   Cardinality(Union(yields'[Len(yields')])) <= 1)]_vars

C27_Witness ==
    /\ method = "find"
    /\ pc = "done"
    /\ Len(yields) = 1
    /\ weighings = 0
    /\ Cardinality(light \cup heavy) = 1
    /\ filler = FillerCoins

\* C28: in find, for light | heavy of 2 coins or more, every split the
\* iteration orders allow and each of LIGHT, EVEN and HEAVY as the result,
\* the next pair has fewer coins than the current one; the pairs yielded
\* shrink strictly, and find makes at most |light | heavy| - 1 weighings.
C28_FindProgress ==
    method = "find" =>
        /\ weighings <= (IF pool = {} THEN 0 ELSE Cardinality(pool) - 1)
        /\ \A j \in 1..(Len(yields) - 1) :
               Cardinality(Union(yields[j + 1])) < Cardinality(Union(yields[j]))
        /\ (pc = "find" /\ Cardinality(light \cup heavy) >= 2 =>
               \A ls \in Strided(light, 3) : \A hs \in Strided(heavy, 3) :
               \A w \in {LIGHT, EVEN, HEAVY} :
                   Cardinality(NewLight(w, light, ls[1] \cup hs[1], ls[2] \cup hs[2])
                               \cup NewHeavy(w, heavy, ls[1] \cup hs[1], ls[2] \cup hs[2]))
                       < Cardinality(light \cup heavy))

C28_Witness ==
    /\ method = "find"
    /\ pc = "done"
    /\ Cardinality(pool) >= 3
    /\ weighings = Cardinality(pool) - 1

\* C29: in a run of solve on a fresh Balance whose target x is in the pool,
\* every pair yielded has x in light when the weight is LIGHT and in heavy
\* when it is HEAVY, x is never in filler, and x is in the pool of every
\* round of solve and on the side of its weight in the arguments of find.
C29_Soundness ==
    (FreshSolve /\ coin \in pool) =>
        /\ coin \notin filler
        /\ \A j \in 1..Len(yields) :
               coin \in (IF weight = LIGHT THEN yields[j][1] ELSE yields[j][2])
        /\ (pc = "solve" => coin \in coins)
        /\ (pc = "find" => coin \in (IF weight = LIGHT THEN light ELSE heavy))

C29_Witness ==
    /\ FreshSolve
    /\ Cardinality(pool) = TwelveCoins
    /\ coin \in pool
    /\ weight = HEAVY
    /\ pc = "done"
    /\ depth >= 4
    /\ Len(yields) >= 2
    /\ coin \in yields[1][2]
    /\ yields[1][1] # {}

\* C30: in a run of solve on a fresh Balance, at every pair yielded filler,
\* light and heavy together are exactly the pool solve was called with, and
\* at every round of solve filler together with the pool of the round is
\* exactly that pool.
C30_Conservation ==
    FreshSolve =>
        /\ (pc = "solve" => filler \cup coins = pool)
        /\ ((pc = "find" \/ yields # <<>>) => filler \cup light \cup heavy = pool)

C30_Witness ==
    /\ FreshSolve
    /\ Cardinality(pool) = TwelveCoins
    /\ pc = "done"
    /\ Len(yields) >= 3
    /\ Cardinality(filler) = TwelveCoins - 1
    /\ Cardinality(light \cup heavy) = 1

====
